---------------------------- MODULE Spec2Model ----------------------------
(***************************************************************************)
(* A model of App.py, the Streamlit healthcare assistant: the four SQLite  *)
(* tables (users, appointments, reminders, profiles), the core functions   *)
(* that read and write them, and the Streamlit session that calls them.    *)
(*                                                                         *)
(* Conventions.                                                            *)
(*   - An optional value (Python None, SQL NULL) is <<>>; a present value  *)
(*     x is <<x>>.                                                         *)
(*   - A username is a sequence of one-character strings, so that the      *)
(*     regular expression of signup can be evaluated character by          *)
(*     character.                                                          *)
(*   - A point on the calendar is an integer number of minutes counted     *)
(*     from 2025-06-01 00:00 (st.time_input yields whole minutes).  A      *)
(*     Python datetime is [clock, tzinfo]: the wall-clock reading and the  *)
(*     optional UTC offset in minutes.  An ISO-8601 text is [clock,        *)
(*     suffix]: the same reading and the optional "+HH:MM" suffix.         *)
(*   - A message is a tuple of tokens; the emoji that the session tests    *)
(*     for is a token of its own.                                          *)
(*   - The sqlite3 and bcrypt libraries are taken to work: the generic     *)
(*     `except Exception` branches need a fault of the engine and are not  *)
(*     taken in this model.  bcrypt is a salted function of the password,  *)
(*     injective for a fixed salt.                                         *)
(***************************************************************************)
EXTENDS Integers, Sequences, FiniteSets, TLC

VARIABLES
    db,             \* the healthcare.db file: the four tables and sqlite_sequence
    logged_in,      \* st.session_state.logged_in
    username,       \* st.session_state.username
    messages,       \* st.session_state.messages
    auth_mode,      \* the sidebar's radio button
    uploaded_file,  \* what st.file_uploader holds: <<>> or <<bytes>>
    systz,          \* the UTC offset of the server's system timezone, in minutes
    msg,            \* what the last call returned (and st.success displayed)
    registered,     \* history: the <<username, password>> pairs signed up successfully
    reruns          \* the number of script reruns of the session so far

vars == <<db, logged_in, username, messages, auth_mode, uploaded_file, systz,
          msg, registered, reruns>>

session == <<logged_in, username, messages, auth_mode, uploaded_file, reruns>>

-----------------------------------------------------------------------------
(* Bounds of the model.                                                    *)

\* The highest AUTOINCREMENT id a table hands out in the store specifications.
MaxId == 2

\* The number of script reruns explored in the session specification.
MaxReruns == 5

-----------------------------------------------------------------------------
(* Values.                                                                 *)

None == <<>>

Some(x) == <<x>>

Rep(c, n) == [i \in 1..n |-> c]

CheckMark == "U+2705"

CrossMark == "U+274C"

WarningSign == "U+26A0"

\* The members of the class [A-Za-z0-9_] among the characters the model uses.
WordChars == {"a", "b", "c", "x", "y", "z", "A", "Z", "0", "1", "9", "_"}

MinUserLen == 3

MaxUserLen == 20

\* The usernames the functions are called with.
Usernames ==
    { <<>>,
      <<"a", "b">>,
      <<"a", "b", "c">>,
      <<"x", "_", "1">>,
      Rep("a", MaxUserLen),
      Rep("a", MaxUserLen + 1),
      <<"a", "-", "c">>,
      <<"a", "b", " ">>,
      <<"a", "b", "\n">>,
      <<"a", "b", "c", "\n">>,
      <<"a", "b", "c", "\n", "\n">>,
      <<"a", "b", "c", "\n", "x">> }

Passwords == {"pw1", "pw2"}

Emails == {"a@b.c"}

\* The salts bcrypt.gensalt() may draw.
Salts == {"salt1", "salt2"}

-----------------------------------------------------------------------------
(* Database setup.                                                         *)

\* The tables as CREATE TABLE IF NOT EXISTS leaves them in a new file.
get_db_connection ==
    [ users        |-> {},
      appointments |-> {},
      reminders    |-> {},
      profiles     |-> {},
      seq          |-> [users |-> 0, appointments |-> 0, reminders |-> 0, profiles |-> 0] ]

\* INTEGER PRIMARY KEY AUTOINCREMENT: one more than the largest id ever used.
NextId(d, table) == d.seq[table] + 1

-----------------------------------------------------------------------------
(* Credential functions.                                                   *)

\* re.match(r"^[A-Za-z0-9_]{3,20}$", s): {3,20} takes k characters of the class
\* from the start, and $ matches at the end of the string or just before a
\* newline that is its last character.
UsernameMatches(s) ==
    \E k \in MinUserLen..MaxUserLen :
        /\ k <= Len(s)
        /\ \A i \in 1..k : s[i] \in WordChars
        /\ \/ k = Len(s)
           \/ k = Len(s) - 1 /\ s[Len(s)] = "\n"

bcrypt_hashpw(password, salt) == [salt |-> salt, digest |-> <<salt, password>>]

bcrypt_checkpw(password, hashed) == bcrypt_hashpw(password, hashed.salt) = hashed

InvalidUsername == <<CrossMark, "Invalid username (3-20 chars, alphanumeric)">>

SignupSuccessful == <<CheckMark, "Signup successful!">>

UsernameExists == <<CrossMark, "Username already exists!">>

LoginSuccessful == <<CheckMark, "Login successful!">>

InvalidCredentials == <<CrossMark, "Invalid credentials">>

\* signup on a table whose username column is not UNIQUE.
signup_NotUnique(d, name, password, email, salt) ==
    IF ~UsernameMatches(name)
    THEN [msg |-> InvalidUsername, db |-> d]
    ELSE [msg |-> SignupSuccessful,
          db |-> [d EXCEPT
              !.users = @ \cup {[id       |-> NextId(d, "users"),
                                 username |-> name,
                                 password |-> bcrypt_hashpw(password, salt),
                                 email    |-> email]},
              !.seq.users = NextId(d, "users")]]

signup(d, name, password, email, salt) ==
    IF ~UsernameMatches(name)
    THEN [msg |-> InvalidUsername, db |-> d]
    ELSE IF \E r \in d.users : r.username = name
         THEN [msg |-> UsernameExists, db |-> d]
         ELSE [msg |-> SignupSuccessful,
               db |-> [d EXCEPT
                   !.users = @ \cup {[id       |-> NextId(d, "users"),
                                      username |-> name,
                                      password |-> bcrypt_hashpw(password, salt),
                                      email    |-> email]},
                   !.seq.users = NextId(d, "users")]]

\* login whose SELECT has no WHERE username = ?: any row's password will do.
login_AnyRow(d, name, password) ==
    IF \E r \in d.users : bcrypt_checkpw(password, r.password)
    THEN LoginSuccessful
    ELSE InvalidCredentials

login(d, name, password) ==
    IF \E r \in d.users : r.username = name /\ bcrypt_checkpw(password, r.password)
    THEN LoginSuccessful
    ELSE InvalidCredentials

-----------------------------------------------------------------------------
(* Dates and times.                                                        *)

\* timezone('Asia/Kolkata'): UTC+05:30.
Kolkata == 330

\* timezone('UTC').
UTC == 0

Naive(clock) == [clock |-> clock, tzinfo |-> None]

Aware(clock, offset) == [clock |-> clock, tzinfo |-> Some(offset)]

\* tz.localize(dt), for a naive dt: the same wall clock, in tz.
localize(tz, dt) == [clock |-> dt.clock, tzinfo |-> Some(tz)]

\* dt.utcoffset() as dt.astimezone() takes it: a naive datetime is presumed
\* to be in the system's local timezone.
PresumedOffset(dt) == IF dt.tzinfo = None THEN systz ELSE dt.tzinfo[1]

\* dt.astimezone(tz): the same instant, on the wall clock of tz.
astimezone(dt, tz) ==
    [clock |-> dt.clock - PresumedOffset(dt) + tz, tzinfo |-> Some(tz)]

\* dt.isoformat(): "YYYY-MM-DDTHH:MM:SS" and, for an aware dt, "+HH:MM".
isoformat(dt) == [clock |-> dt.clock, suffix |-> dt.tzinfo]

\* SQLite's datetime(text): the text's offset is subtracted and the result is
\* "YYYY-MM-DD HH:MM:SS" in UTC, with no suffix.
sqlite_datetime(text) ==
    [clock  |-> text.clock - (IF text.suffix = None THEN 0 ELSE text.suffix[1]),
     suffix |-> None]

\* The place of an offset suffix in the order of text: the end of the string
\* before any character, "+" (0x2B) before "-" (0x2D), then the digits.
SuffixRank(suffix) ==
    IF suffix = None THEN -1
    ELSE IF suffix[1] >= 0 THEN suffix[1] ELSE 100000 - suffix[1]

\* a <= b as SQLite compares two TEXT values (memcmp): the date and time
\* first, which are of fixed width, then the suffix.
TextLeq(a, b) ==
    \/ a.clock < b.clock
    \/ a.clock = b.clock /\ SuffixRank(a.suffix) <= SuffixRank(b.suffix)

\* Every arrangement of the rows S in a sequence, each row once.
Arrangements(S) ==
    { s \in [1..Cardinality(S) -> S] :
        \A i, j \in 1..Cardinality(S) : i # j => s[i] # s[j] }

\* The datetimes the ledger functions are called with.
DateTimes == {Naive(600), Aware(600, Kolkata), Aware(0, -300)}

PatientNames == {<<"a", "b", "c">>, <<"x", "_", "1">>}

\* The doctors the appointment form offers.
doctors == {"Dr. Smith (Cardiology)", "Dr. Jones (Pediatrics)"}

\* The doctor the ledger is called with directly.
CalledDoctors == {"Dr. Smith (Cardiology)"}

Medications == {"aspirin"}

-----------------------------------------------------------------------------
(* Appointment functions.                                                  *)

AppointmentBooked == <<CheckMark, "Appointment booked!">>

AppointmentDeleted == <<CheckMark, "Appointment deleted!">>

\* book_appointment without the conversion to UTC.
book_appointment_NoUtc(d, patient_name, doctor_name, appointment_datetime) ==
    LET localized == IF appointment_datetime.tzinfo = None
                     THEN localize(Kolkata, appointment_datetime)
                     ELSE appointment_datetime
    IN [msg |-> AppointmentBooked,
        db |-> [d EXCEPT
            !.appointments = @ \cup {[id           |-> NextId(d, "appointments"),
                                      patient_name |-> patient_name,
                                      doctor_name  |-> doctor_name,
                                      appointment_datetime |-> isoformat(localized)]},
            !.seq.appointments = NextId(d, "appointments")]]

book_appointment(d, patient_name, doctor_name, appointment_datetime) ==
    LET localized == IF appointment_datetime.tzinfo = None
                     THEN localize(Kolkata, appointment_datetime)
                     ELSE appointment_datetime
        utc_time == astimezone(localized, UTC)
    IN [msg |-> AppointmentBooked,
        db |-> [d EXCEPT
            !.appointments = @ \cup {[id           |-> NextId(d, "appointments"),
                                      patient_name |-> patient_name,
                                      doctor_name  |-> doctor_name,
                                      appointment_datetime |-> isoformat(utc_time)]},
            !.seq.appointments = NextId(d, "appointments")]]

\* delete_appointment that names the other ledger's table.
delete_appointment_WrongTable(d, appointment_id) ==
    [msg |-> AppointmentDeleted,
     db |-> [d EXCEPT !.reminders = {r \in @ : r.id # appointment_id}]]

delete_appointment(d, appointment_id) ==
    [msg |-> AppointmentDeleted,
     db |-> [d EXCEPT !.appointments = {r \in @ : r.id # appointment_id}]]

AppointmentLeq(r, s) ==
    sqlite_datetime(r.appointment_datetime).clock
        <= sqlite_datetime(s.appointment_datetime).clock

\* SELECT id, doctor_name, datetime(appointment_datetime) FROM appointments
\* WHERE patient_name = ? ORDER BY datetime(appointment_datetime)
\* The results the engine may return: the selected rows in any arrangement
\* that is ascending by the ORDER BY term (rows that tie come in any order).
appointments_query(d, patient_name) ==
    { [i \in DOMAIN s |->
          <<s[i].id, s[i].doctor_name, sqlite_datetime(s[i].appointment_datetime)>>] :
      s \in { a \in Arrangements({r \in d.appointments :
                                     r.patient_name = patient_name}) :
                \A i, j \in DOMAIN a : i < j => AppointmentLeq(a[i], a[j]) } }

-----------------------------------------------------------------------------
(* Medicine reminder functions.                                            *)

ReminderSet == <<CheckMark, "Medicine reminder set!">>

ReminderDeleted == <<CheckMark, "Medicine reminder deleted!">>

set_medicine_reminder(d, patient_name, medication, reminder_time) ==
    LET india_time == astimezone(reminder_time, Kolkata)
    IN [msg |-> ReminderSet,
        db |-> [d EXCEPT
            !.reminders = @ \cup {[id            |-> NextId(d, "reminders"),
                                   patient_name  |-> patient_name,
                                   medication    |-> medication,
                                   reminder_time |-> isoformat(india_time),
                                   sent          |-> 0]},
            !.seq.reminders = NextId(d, "reminders")]]

delete_medicine_reminder(d, reminder_id) ==
    [msg |-> ReminderDeleted,
     db |-> [d EXCEPT !.reminders = {r \in @ : r.id # reminder_id}]]

\* ORDER BY id in place of ORDER BY reminder_time.
ReminderLeq_ById(r, s) == r.id <= s.id

ReminderLeq(r, s) == TextLeq(r.reminder_time, s.reminder_time)

\* SELECT id, medication, reminder_time FROM reminders
\* WHERE patient_name = ? ORDER BY reminder_time
reminders_query(d, patient_name) ==
    { [i \in DOMAIN s |-> <<s[i].id, s[i].medication, s[i].reminder_time>>] :
      s \in { a \in Arrangements({r \in d.reminders :
                                     r.patient_name = patient_name}) :
                \A i, j \in DOMAIN a : i < j => ReminderLeq(a[i], a[j]) } }

-----------------------------------------------------------------------------
(* Profile functions.                                                      *)

\* The byte strings an uploaded file may hold; a file may be empty.
Pictures == {<<>>, <<255>>, <<137, 80>>}

\* What the profile form submits: the widgets' defaults, or a filled form.
ProfileForms ==
    { [full_name |-> "", age |-> 1, medical_history |-> "", allergies |-> "",
       medications |-> "", blood_type |-> "", height |-> 50, weight |-> 1],
      [full_name |-> "Ann", age |-> 30, medical_history |-> "asthma",
       allergies |-> "pollen", medications |-> "aspirin", blood_type |-> "O+",
       height |-> 170, weight |-> 60] }

\* INSERT OR REPLACE: the row that holds the same username (UNIQUE) is deleted
\* and the new row takes the next AUTOINCREMENT id.
InsertOrReplaceProfile(d, row) ==
    [d EXCEPT
        !.profiles = {r \in @ : r.username # row.username}
                        \cup {[row EXCEPT !.id = NextId(d, "profiles")]},
        !.seq.profiles = NextId(d, "profiles")]

\* INSERT OR REPLACE INTO profiles (username, profile_picture) VALUES (?, ?):
\* the columns that are not named take their default, NULL.
profile_picture_upload(d, name, profile_picture) ==
    InsertOrReplaceProfile(d,
        [id |-> 0, username |-> name,
         full_name |-> None, age |-> None, medical_history |-> None,
         allergies |-> None, medications |-> None, blood_type |-> None,
         height |-> None, weight |-> None,
         profile_picture |-> Some(profile_picture)])

\* A save that keeps the picture of the row it replaces.
profile_form_KeepsPicture(d, name, form) ==
    InsertOrReplaceProfile(d,
        [id |-> 0, username |-> name,
         full_name |-> Some(form.full_name), age |-> Some(form.age),
         medical_history |-> Some(form.medical_history),
         allergies |-> Some(form.allergies),
         medications |-> Some(form.medications),
         blood_type |-> Some(form.blood_type),
         height |-> Some(form.height), weight |-> Some(form.weight),
         profile_picture |->
             IF \E r \in d.profiles : r.username = name
             THEN (CHOOSE r \in d.profiles : r.username = name).profile_picture
             ELSE None])

\* INSERT OR REPLACE INTO profiles (username, full_name, age, medical_history,
\* allergies, medications, blood_type, height, weight) VALUES (...)
profile_form(d, name, form) ==
    InsertOrReplaceProfile(d,
        [id |-> 0, username |-> name,
         full_name |-> Some(form.full_name), age |-> Some(form.age),
         medical_history |-> Some(form.medical_history),
         allergies |-> Some(form.allergies),
         medications |-> Some(form.medications),
         blood_type |-> Some(form.blood_type),
         height |-> Some(form.height), weight |-> Some(form.weight),
         profile_picture |-> None])

ProfileUpdated == <<"Profile Updated Successfully!">>

\* Python's truth value of the column read: None and b"" are both false.
Truthy(column) == column # None /\ Len(column[1]) > 0

\* The picture as Some(bytes), or None.
get_profile_picture(d, name) ==
    IF \E r \in d.profiles : r.username = name /\ Truthy(r.profile_picture)
    THEN (CHOOSE r \in d.profiles :
              r.username = name /\ Truthy(r.profile_picture)).profile_picture
    ELSE None

-----------------------------------------------------------------------------
(* The assistant.                                                          *)

\* What the text-generation pipeline may do with a prompt.
GeneratorOutcomes == {[raised |-> FALSE, text |-> "generated text"],
                      [raised |-> TRUE, text |-> "pipeline fault"]}

healthcare_chatbot(user_input, outcome) ==
    IF outcome.raised
    THEN <<"Error: ", outcome.text>>
    ELSE <<outcome.text, "\n\n", WarningSign, WarningSign,
           "This is not medical advice.">>

\* "✅" in msg
HasCheckMark(m) == \E i \in DOMAIN m : m[i] = CheckMark

-----------------------------------------------------------------------------
(* Initial state: a new database file, a new session.                      *)

SystemTimezones == {0, 330}

Init ==
    /\ db = get_db_connection
    /\ logged_in = FALSE
    /\ username = <<>>
    /\ messages = <<>>
    /\ auth_mode = "Login"
    /\ uploaded_file = None
    /\ systz \in SystemTimezones
    /\ msg = <<>>
    /\ registered = {}
    /\ reruns = 0

-----------------------------------------------------------------------------
(* The credential store called directly.                                   *)

CallSignup(name, password, email, salt) ==
    LET r == signup(db, name, password, email, salt) IN
    /\ r.db.seq.users <= MaxId
    /\ db' = r.db
    /\ msg' = r.msg
    /\ registered' = IF r.msg = SignupSuccessful
                     THEN registered \cup {<<name, password>>}
                     ELSE registered
    /\ UNCHANGED <<session, systz>>

CallLogin(name, password) ==
    /\ msg' = login(db, name, password)
    /\ UNCHANGED <<db, session, systz, registered>>

CredentialNext ==
    \/ \E name \in Usernames, password \in Passwords, email \in Emails, salt \in Salts :
           CallSignup(name, password, email, salt)
    \/ \E name \in Usernames, password \in Passwords :
           CallLogin(name, password)

CredentialSpec == Init /\ [][CredentialNext]_vars

-----------------------------------------------------------------------------
(* The two ledgers called directly.                                        *)

CallBookAppointment(patient, doctor, when) ==
    LET r == book_appointment(db, patient, doctor, when) IN
    /\ r.db.seq.appointments <= MaxId
    /\ db' = r.db
    /\ msg' = r.msg
    /\ UNCHANGED <<session, systz, registered>>

CallDeleteAppointment(id) ==
    LET r == delete_appointment(db, id) IN
    /\ db' = r.db
    /\ msg' = r.msg
    /\ UNCHANGED <<session, systz, registered>>

CallSetMedicineReminder(patient, medication, when) ==
    LET r == set_medicine_reminder(db, patient, medication, when) IN
    /\ r.db.seq.reminders <= MaxId
    /\ db' = r.db
    /\ msg' = r.msg
    /\ UNCHANGED <<session, systz, registered>>

CallDeleteMedicineReminder(id) ==
    LET r == delete_medicine_reminder(db, id) IN
    /\ db' = r.db
    /\ msg' = r.msg
    /\ UNCHANGED <<session, systz, registered>>

\* The ids a delete is called with: those handed out so far, and one never used.
Ids == 1..(MaxId + 1)

LedgerNext ==
    \/ \E patient \in PatientNames, doctor \in CalledDoctors, when \in DateTimes :
           CallBookAppointment(patient, doctor, when)
    \/ \E id \in Ids : CallDeleteAppointment(id)
    \/ \E patient \in PatientNames, medication \in Medications, when \in DateTimes :
           CallSetMedicineReminder(patient, medication, when)
    \/ \E id \in Ids : CallDeleteMedicineReminder(id)

\* The database file outlives the process: the ledgers may start beside a
\* user and a profile written by an earlier session.
EarlierSession ==
    profile_picture_upload(
        signup(get_db_connection, <<"a", "b", "c">>, "pw1", "a@b.c", "salt1").db,
        <<"a", "b", "c">>, <<255>>)

LedgerInit ==
    /\ db \in {get_db_connection, EarlierSession}
    /\ logged_in = FALSE
    /\ username = <<>>
    /\ messages = <<>>
    /\ auth_mode = "Login"
    /\ uploaded_file = None
    /\ systz \in SystemTimezones
    /\ msg = <<>>
    /\ registered = {}
    /\ reruns = 0

LedgerSpec == LedgerInit /\ [][LedgerNext]_vars

-----------------------------------------------------------------------------
(* The profile store called directly.                                      *)

CallUploadPicture(name, bytes) ==
    LET d == profile_picture_upload(db, name, bytes) IN
    /\ d.seq.profiles <= MaxId
    /\ db' = d
    /\ msg' = <<>>
    /\ UNCHANGED <<session, systz, registered>>

CallSaveProfile(name, form) ==
    LET d == profile_form(db, name, form) IN
    /\ d.seq.profiles <= MaxId
    /\ db' = d
    /\ msg' = ProfileUpdated
    /\ UNCHANGED <<session, systz, registered>>

CallGetPicture(name) ==
    /\ msg' = <<"picture", get_profile_picture(db, name)>>
    /\ UNCHANGED <<db, session, systz, registered>>

ProfileNext ==
    \/ \E name \in PatientNames, bytes \in Pictures : CallUploadPicture(name, bytes)
    \/ \E name \in PatientNames, form \in ProfileForms : CallSaveProfile(name, form)
    \/ \E name \in PatientNames : CallGetPicture(name)

ProfileSpec == Init /\ [][ProfileNext]_vars

-----------------------------------------------------------------------------
(* The Streamlit session.  Every interaction reruns the script from the    *)
(* top: the sidebar, then, when logged in, the four tabs.  A button or a   *)
(* form's submit button is true only in the rerun it causes; the file      *)
(* uploader goes on returning its file in every rerun until the file is    *)
(* removed, so every rerun of a logged-in session writes the picture.      *)

\* What the forms' text inputs may hold: a text input holds one line.
FormUsernames == {<<>>, <<"a", "b">>, <<"a", "b", "c">>, <<"x", "_", "1">>}

FormPasswords == Passwords \cup {""}

FormEmails == Emails \cup {""}

\* The minutes of the day the time inputs may hold.
FormClocks == {600, 630}

Prompts == {"hello"}

\* The profile tab's upload block, run with the session as it is by then.
UploadBlock(d, li, name, file) ==
    IF li /\ file # None THEN profile_picture_upload(d, name, file[1]) ELSE d

Rerun == reruns < MaxReruns /\ reruns' = reruns + 1

ChooseAuthMode(mode) ==
    /\ Rerun
    /\ mode # auth_mode
    /\ auth_mode' = mode
    /\ db' = UploadBlock(db, logged_in, username, uploaded_file)
    /\ msg' = <<>>
    /\ UNCHANGED <<logged_in, username, messages, uploaded_file, systz, registered>>

SubmitSignup(email, name, password, salt) ==
    /\ Rerun
    /\ auth_mode = "Signup"
    /\ LET filled == email # "" /\ name # <<>> /\ password # ""
           r == IF filled THEN signup(db, name, password, email, salt)
                          ELSE [msg |-> <<>>, db |-> db]
           ok == filled /\ HasCheckMark(r.msg)
       IN /\ logged_in' = (logged_in \/ ok)
          /\ username' = IF ok THEN name ELSE username
          /\ msg' = r.msg
          /\ registered' = IF ok THEN registered \cup {<<name, password>>}
                                 ELSE registered
          /\ db' = UploadBlock(r.db, logged_in', username', uploaded_file)
    /\ UNCHANGED <<messages, auth_mode, uploaded_file, systz>>

\* A login form that logs in whatever login returned.
SubmitLogin_IgnoresMessage(name, password) ==
    /\ Rerun
    /\ auth_mode = "Login"
    /\ LET filled == name # <<>> /\ password # ""
           m == IF filled THEN login(db, name, password) ELSE <<>>
       IN /\ logged_in' = (logged_in \/ filled)
          /\ username' = IF filled THEN name ELSE username
          /\ msg' = m
          /\ db' = UploadBlock(db, logged_in', username', uploaded_file)
    /\ UNCHANGED <<messages, auth_mode, uploaded_file, systz, registered>>

SubmitLogin(name, password) ==
    /\ Rerun
    /\ auth_mode = "Login"
    /\ LET filled == name # <<>> /\ password # ""
           m == IF filled THEN login(db, name, password) ELSE <<>>
           ok == filled /\ HasCheckMark(m)
       IN /\ logged_in' = (logged_in \/ ok)
          /\ username' = IF ok THEN name ELSE username
          /\ msg' = m
          /\ db' = UploadBlock(db, logged_in', username', uploaded_file)
    /\ UNCHANGED <<messages, auth_mode, uploaded_file, systz, registered>>

SendChat(prompt, outcome) ==
    /\ Rerun
    /\ logged_in
    /\ messages' = Append(Append(messages, <<"**You:**", prompt>>),
                          <<"**AI:**">> \o healthcare_chatbot(prompt, outcome))
    /\ db' = UploadBlock(db, logged_in, username, uploaded_file)
    /\ msg' = <<>>
    /\ UNCHANGED <<logged_in, username, auth_mode, uploaded_file, systz, registered>>

SubmitAppointment(doc, clock) ==
    /\ Rerun
    /\ logged_in
    /\ LET localized_dt == localize(Kolkata, Naive(clock))
           r == book_appointment(db, username, doc, localized_dt)
       IN /\ msg' = r.msg
          /\ db' = UploadBlock(r.db, logged_in, username, uploaded_file)
    /\ UNCHANGED <<logged_in, username, messages, auth_mode, uploaded_file, systz,
                   registered>>

ClickDeleteAppointment(id) ==
    /\ Rerun
    /\ logged_in
    /\ \E r \in db.appointments : r.patient_name = username
    /\ LET r == delete_appointment(db, id)
       IN /\ msg' = r.msg
          /\ db' = UploadBlock(r.db, logged_in, username, uploaded_file)
    /\ UNCHANGED <<logged_in, username, messages, auth_mode, uploaded_file, systz,
                   registered>>

ClickDeleteReminder(id) ==
    /\ Rerun
    /\ logged_in
    /\ LET r == delete_medicine_reminder(db, id)
       IN /\ msg' = r.msg
          /\ db' = UploadBlock(r.db, logged_in, username, uploaded_file)
    /\ UNCHANGED <<logged_in, username, messages, auth_mode, uploaded_file, systz,
                   registered>>

SubmitReminder(medication, clock) ==
    /\ Rerun
    /\ logged_in
    /\ LET reminder_datetime == Naive(clock)
           r == set_medicine_reminder(db, username, medication, reminder_datetime)
       IN /\ msg' = r.msg
          /\ db' = UploadBlock(r.db, logged_in, username, uploaded_file)
    /\ UNCHANGED <<logged_in, username, messages, auth_mode, uploaded_file, systz,
                   registered>>

UploadFile(bytes) ==
    /\ Rerun
    /\ logged_in
    /\ uploaded_file # Some(bytes)
    /\ uploaded_file' = Some(bytes)
    /\ db' = UploadBlock(db, logged_in, username, uploaded_file')
    /\ msg' = <<>>
    /\ UNCHANGED <<logged_in, username, messages, auth_mode, systz, registered>>

RemoveFile ==
    /\ Rerun
    /\ logged_in
    /\ uploaded_file # None
    /\ uploaded_file' = None
    /\ msg' = <<>>
    /\ UNCHANGED <<db, logged_in, username, messages, auth_mode, systz, registered>>

SubmitProfile(form) ==
    /\ Rerun
    /\ logged_in
    /\ db' = profile_form(UploadBlock(db, logged_in, username, uploaded_file),
                          username, form)
    /\ msg' = ProfileUpdated
    /\ UNCHANGED <<logged_in, username, messages, auth_mode, uploaded_file, systz,
                   registered>>

Next ==
    \/ \E mode \in {"Login", "Signup"} : ChooseAuthMode(mode)
    \/ \E email \in FormEmails, name \in FormUsernames, password \in FormPasswords,
          salt \in Salts : SubmitSignup(email, name, password, salt)
    \/ \E name \in FormUsernames, password \in FormPasswords : SubmitLogin(name, password)
    \/ \E prompt \in Prompts, outcome \in GeneratorOutcomes : SendChat(prompt, outcome)
    \/ \E doc \in doctors, clock \in FormClocks : SubmitAppointment(doc, clock)
    \/ \E id \in Ids : ClickDeleteAppointment(id)
    \/ \E id \in Ids : ClickDeleteReminder(id)
    \/ \E medication \in Medications, clock \in FormClocks :
           SubmitReminder(medication, clock)
    \/ \E bytes \in Pictures : UploadFile(bytes)
    \/ RemoveFile
    \/ \E form \in ProfileForms : SubmitProfile(form)

Spec == Init /\ [][Next]_vars

-----------------------------------------------------------------------------
(* Properties.                                                             *)

HasUser(d, name) == \E r \in d.users : r.username = name

\* The whole of s is 3 to 20 characters of [A-Za-z0-9_].
WellFormed(s) ==
    /\ Len(s) >= 3
    /\ Len(s) <= 20
    /\ \A i \in 1..Len(s) : s[i] \in WordChars

\* C1: the users table holds at most one row per username, and a signup for
\* a username that has a row returns the "already exists" message and leaves
\* the database as it was.
C1_OneRowPerUsername ==
    /\ [](\A r1, r2 \in db.users : r1.username = r2.username => r1 = r2)
    /\ [][\A name \in Usernames, password \in Passwords, email \in Emails,
             salt \in Salts :
            (HasUser(db, name) /\ CallSignup(name, password, email, salt))
                => (msg' = UsernameExists /\ db' = db)]_vars

\* A second signup of "abc" was refused and one row for "abc" remains.
C1_Witness ==
    /\ msg = UsernameExists
    /\ Cardinality({r \in db.users : r.username = <<"a", "b", "c">>}) = 1

\* C2: a signup for a username that is not, as a whole, 3 to 20 characters of
\* [A-Za-z0-9_] returns the "invalid username" message and writes nothing.
C2_IllFormedRejected ==
    [][\A name \in Usernames, password \in Passwords, email \in Emails,
          salt \in Salts :
         (~WellFormed(name) /\ CallSignup(name, password, email, salt))
             => (msg' = InvalidUsername /\ db' = db)]_vars

UtcClockOf(when) ==
    IF when.tzinfo = None THEN when.clock - (5 * 60 + 30)
                          ELSE when.clock - when.tzinfo[1]

\* C4: every stored appointment time carries the suffix +00:00; a booking
\* stores one new row whose time is the UTC reading of the instant (a naive
\* time being read as Asia/Kolkata time, so that naive 10:00 is stored as
\* 04:30+00:00), and the patient's list returns that row with that reading.
C4_StoredAsUtc ==
    /\ [](\A r \in db.appointments : r.appointment_datetime.suffix = Some(0))
    /\ [](\A patient \in PatientNames, doctor \in doctors :
            LET d == book_appointment(db, patient, doctor, Naive(600)).db
            IN \E r \in d.appointments \ db.appointments :
                   r.appointment_datetime = [clock |-> 270, suffix |-> Some(0)])
    /\ [][\A patient \in PatientNames, doctor \in CalledDoctors, when \in DateTimes :
            CallBookAppointment(patient, doctor, when) =>
                /\ db'.appointments =
                       db.appointments \cup
                           {[id |-> db'.seq.appointments,
                             patient_name |-> patient,
                             doctor_name |-> doctor,
                             appointment_datetime |->
                                 [clock |-> UtcClockOf(when), suffix |-> Some(0)]]}
                /\ db'.seq.appointments \notin {r.id : r \in db.appointments}
                /\ \A s \in appointments_query(db', patient) :
                       \E i \in DOMAIN s :
                           s[i] = <<db'.seq.appointments, doctor,
                                    [clock |-> UtcClockOf(when), suffix |-> None]>>]_vars

\* A naive 10:00 was booked (04:30 UTC) and so was midnight at UTC-05:00
\* (05:00 UTC).
C4_Witness ==
    /\ msg = AppointmentBooked
    /\ \E r1, r2 \in db.appointments :
          /\ r1.appointment_datetime = [clock |-> 270, suffix |-> Some(0)]
          /\ r2.appointment_datetime = [clock |-> 300, suffix |-> Some(0)]

\* The reading of a datetime on the Asia/Kolkata clock when a naive one is
\* taken to be Asia/Kolkata time already.
KolkataTextOf(when) ==
    IF when.tzinfo = None
    THEN [clock |-> when.clock, suffix |-> Some(5 * 60 + 30)]
    ELSE [clock |-> when.clock - when.tzinfo[1] + (5 * 60 + 30),
          suffix |-> Some(5 * 60 + 30)]

\* C5: scheduling a reminder stores, and the patient's list returns, the time
\* on the Asia/Kolkata clock (+05:30), a naive time being taken as
\* Asia/Kolkata time and not as time of the server's system timezone.
C5_StoredAsKolkata ==
    [][\A patient \in PatientNames, medication \in Medications, when \in DateTimes :
         CallSetMedicineReminder(patient, medication, when) =>
             \A s \in reminders_query(db', patient) :
                 \E i \in DOMAIN s :
                     s[i] = <<db'.seq.reminders, medication, KolkataTextOf(when)>>]_vars

\* C6: deleting an appointment (a reminder) by id removes the row of that
\* table with that id and nothing else, returns the success message, changes
\* nothing when no row has the id, and changes nothing when repeated.
C6_DeleteExactlyOne ==
    /\ [][\A id \in Ids :
            CallDeleteAppointment(id) =>
                /\ db' = [db EXCEPT !.appointments = {r \in @ : r.id # id}]
                /\ Cardinality(db.appointments) - Cardinality(db'.appointments)
                       = (IF \E r \in db.appointments : r.id = id THEN 1 ELSE 0)
                /\ msg' = AppointmentDeleted
                /\ delete_appointment(db', id).db = db']_vars
    /\ [][\A id \in Ids :
            CallDeleteMedicineReminder(id) =>
                /\ db' = [db EXCEPT !.reminders = {r \in @ : r.id # id}]
                /\ Cardinality(db.reminders) - Cardinality(db'.reminders)
                       = (IF \E r \in db.reminders : r.id = id THEN 1 ELSE 0)
                /\ msg' = ReminderDeleted
                /\ delete_medicine_reminder(db', id).db = db']_vars

\* Appointment 1 was deleted; appointment 2, a reminder, a user and a
\* profile are still there.
C6_Witness ==
    /\ msg = AppointmentDeleted
    /\ {r.id : r \in db.appointments} = {2}
    /\ db.reminders # {}
    /\ db.users # {}
    /\ db.profiles # {}

\* The instant a stored text denotes, in minutes of UTC.
DenotedInstant(text) ==
    text.clock - (IF text.suffix = None THEN 0 ELSE text.suffix[1])

AppointmentInstant(id) ==
    DenotedInstant((CHOOSE r \in db.appointments : r.id = id).appointment_datetime)

ReminderInstant(id) ==
    DenotedInstant((CHOOSE r \in db.reminders : r.id = id).reminder_time)

\* C7: a patient's list of appointments (of reminders) holds the stored rows
\* of that patient, each once, and no other, in ascending order of the
\* instants the stored times denote.
C7_ListedInOrder ==
    \A patient \in PatientNames :
        /\ appointments_query(db, patient) # {}
        /\ \A s \in appointments_query(db, patient) :
              /\ {s[i][1] : i \in DOMAIN s}
                     = {r.id : r \in {x \in db.appointments : x.patient_name = patient}}
              /\ \A i, j \in DOMAIN s :
                     i < j => /\ s[i][1] # s[j][1]
                              /\ AppointmentInstant(s[i][1]) <= AppointmentInstant(s[j][1])
        /\ reminders_query(db, patient) # {}
        /\ \A s \in reminders_query(db, patient) :
              /\ {s[i][1] : i \in DOMAIN s}
                     = {r.id : r \in {x \in db.reminders : x.patient_name = patient}}
              /\ \A i, j \in DOMAIN s :
                     i < j => /\ s[i][1] # s[j][1]
                              /\ ReminderInstant(s[i][1]) <= ReminderInstant(s[j][1])

\* A patient holds two appointments and two reminders, each pair inserted
\* later-first.
C7_Witness ==
    \E patient \in PatientNames :
        /\ \E r1, r2 \in db.appointments :
              /\ r1.patient_name = patient /\ r2.patient_name = patient
              /\ r1.id < r2.id
              /\ DenotedInstant(r1.appointment_datetime)
                     > DenotedInstant(r2.appointment_datetime)
        /\ \E r1, r2 \in db.reminders :
              /\ r1.patient_name = patient /\ r2.patient_name = patient
              /\ r1.id < r2.id
              /\ DenotedInstant(r1.reminder_time) > DenotedInstant(r2.reminder_time)

\* C8: after a picture upload for u with any bytes, the empty byte string
\* included, get_profile_picture(u) returns those bytes; it returns None
\* only when u has no row or the row's picture is NULL.
C8_PictureRoundTrip ==
    /\ [][\A name \in PatientNames, bytes \in Pictures :
            CallUploadPicture(name, bytes)
                => get_profile_picture(db', name) = Some(bytes)]_vars
    /\ [](\A name \in PatientNames :
            get_profile_picture(db, name) = None
                => \A r \in db.profiles :
                       r.username = name => r.profile_picture = None)

TextFields ==
    {"full_name", "age", "medical_history", "allergies", "medications",
     "blood_type", "height", "weight"}

\* C9: the profiles table holds at most one row per username, and a profile
\* write leaves for its username one new row that holds what the write gave and
\* NULL everywhere else: after a save the picture is gone, after an upload
\* every text field is NULL; the rows of other usernames stay.
C9_WholeRowReplaced ==
    /\ [](\A r1, r2 \in db.profiles : r1.username = r2.username => r1 = r2)
    /\ [][\A name \in PatientNames, form \in ProfileForms :
            CallSaveProfile(name, form) =>
                /\ \E r \in db'.profiles :
                      /\ r.username = name
                      /\ r.profile_picture = None
                      /\ \A f \in TextFields : r[f] = Some(form[f])
                      /\ r.id \notin {x.id : x \in db.profiles}
                /\ get_profile_picture(db', name) = None
                /\ {r \in db'.profiles : r.username # name}
                       = {r \in db.profiles : r.username # name}]_vars
    /\ [][\A name \in PatientNames, bytes \in Pictures :
            CallUploadPicture(name, bytes) =>
                /\ \E r \in db'.profiles :
                      /\ r.username = name
                      /\ r.profile_picture = Some(bytes)
                      /\ \A f \in TextFields : r[f] = None
                      /\ r.id \notin {x.id : x \in db.profiles}
                /\ {r \in db'.profiles : r.username # name}
                       = {r \in db.profiles : r.username # name}]_vars

\* A save has replaced the earlier row of its username: the only row is the
\* second one written, it holds the text and no picture.
C9_Witness ==
    /\ msg = ProfileUpdated
    /\ db.seq.profiles = 2
    /\ \E r \in db.profiles :
          /\ db.profiles = {r}
          /\ r.id = 2
          /\ r.full_name = Some("Ann")
          /\ r.profile_picture = None

\* C10: a logged-in session's username has a row in users; logged_in is
\* never reset; it becomes true, or the username changes, only in a rerun
\* whose signup or login returned success for that username; a refused signup
\* or login leaves both as they were; and the ledgers, the profiles and the
\* chat change only in a session that is logged in.
C10_LoggedInIsAUser ==
    /\ [](logged_in => HasUser(db, username))
    /\ [](~logged_in =>
            /\ username = <<>>
            /\ db.appointments = {} /\ db.reminders = {} /\ db.profiles = {}
            /\ messages = <<>>)
    /\ [][/\ logged_in => logged_in'
          /\ (logged_in' /\ (~logged_in \/ username' # username)) =>
                /\ msg' \in {SignupSuccessful, LoginSuccessful}
                /\ HasUser(db', username')
          /\ msg' \in {InvalidUsername, UsernameExists, InvalidCredentials} =>
                UNCHANGED <<logged_in, username>>
          /\ (\/ db'.appointments # db.appointments
              \/ db'.reminders # db.reminders
              \/ db'.profiles # db.profiles
              \/ messages' # messages) => logged_in]_vars

\* A login was refused in a session logged in as "abc" that goes on as "abc".
C10_Witness ==
    /\ logged_in
    /\ username = <<"a", "b", "c">>
    /\ msg = InvalidCredentials
    /\ Cardinality(db.users) = 2

=============================================================================
